---- MODULE Spec2Model ----
(***************************************************************************)
(* A cluster of nodes each running src/app.py: an in-memory key-value      *)
(* store guarded by one lock, a client write endpoint with an eventual     *)
(* and a strong (quorum) branch, a read endpoint and the replication       *)
(* intake endpoint that peers post to.                                     *)
(*                                                                         *)
(* Every request is one record of the sequence ops, appended when the      *)
(* request reaches its handler.  A client write's record also carries,     *)
(* per peer, the state of the replication request it posted: req is the    *)
(* peer's side ("inflight" until the peer's handler has run, then "done")  *)
(* and out is the sender's side ("pending" until requests.post returns or  *)
(* raises, then "ack" for a 200, "rejected" for another status, "failed"   *)
(* for an exception).                                                      *)
(***************************************************************************)
EXTENDS Naturals, Sequences, FiniteSets, TLC

VARIABLES
    data,       \* data[n]: the dict `data` of node n (key -> value or Absent)
    data_lock,  \* data_lock[n]: TRUE while a thread of node n holds data_lock
    ops,        \* the requests handled so far, in order of arrival
    hist        \* hist[n]: the mutations of node n's dict, in lock order

vars == <<data, data_lock, ops, hist>>

\* ---------------------------------------------------------------- bounds

\* The number of requests (client writes, reads, replication posts from
\* outside the modelled writes) the environment issues in one execution.
MaxOps == 2

\* ------------------------------------------------------- program constants

PEER_NODES == <<"node1", "node2", "node3">>

Nodes == {PEER_NODES[i] : i \in 1..Len(PEER_NODES)}

\* The node that serves client requests in the model (the NODE_ID of the
\* process under study); the other nodes run the same code as its peers.
NODE_ID == "node1"

\* PEER_URLS as node n builds it: the other nodes, in the order of PEER_NODES.
PeerUrlsOf == [n \in Nodes |-> SelectSeq(PEER_NODES, LAMBDA m : m # n)]

PEER_URLS(n) == PeerUrlsOf[n]

PeersOf == [n \in Nodes |-> {PeerUrlsOf[n][i] : i \in 1..Len(PeerUrlsOf[n])}]

Peers(n) == PeersOf[n]

quorum == 1

\* ------------------------------------------------------------ JSON values

\* Python's None: what .get returns for a missing field, and JSON null.
None == "None"

\* A key that is not in the dict.
Absent == "Absent"

Keys == {"x"}
ValueOrder == <<"1", "2">>
Values == {ValueOrder[i] : i \in 1..Len(ValueOrder)}

\* A key that is a JSON array: truthy, so `not key` is false, but a list is
\* unhashable and `data[key] = value` raises TypeError.
Unhashable == "['x']"

Hashable(key) == key # Unhashable

\* The keys a client may send to /kv: a string, possibly empty, none, or a
\* JSON value that is not a string.
WriteKeys == Keys \cup {"", None, Unhashable}

\* The keys a peer or anyone else may post to /replicate.
ReplicateKeys == Keys \cup {None}

\* Whatever may come to be a key of the dict.
StoreKeys == {k \in WriteKeys \cup ReplicateKeys : Hashable(k)}

Consistencies == {"strong", "eventual"}

\* ------------------------------------------------------------ local store

EmptyStore == [k \in StoreKeys |-> Absent]

\* Put with the bug of dict.setdefault: a key that is present keeps its value.
PutIfAbsent(store, key, value) ==
    IF store[key] = Absent THEN [store EXCEPT ![key] = value] ELSE store

\* data[key] = value
Put(store, key, value) == [store EXCEPT ![key] = value]

\* Has with the bug of `if data.get(key)`: a stored null counts as missing.
HasTruthy(store, key) == store[key] # Absent /\ store[key] # None

\* key in data
Has(store, key) == store[key] # Absent

\* ValidWrite with the bug of `key is None`: an empty key passes.
ValidWriteKeyPresent(key, value) == key # None /\ value # None

\* `not key or value is None` of handle_write, negated.
ValidWrite(key, value) == key # None /\ key # "" /\ value # None

\* The status handle_read answers with.
ReadStatus(store, key) == IF Has(store, key) THEN 200 ELSE 404

\* The value handle_read answers with.
ReadValue(store, key) == IF Has(store, key) THEN store[key] ELSE Absent

\* The bodies posted to /kv and /replicate: json is FALSE for a body that is
\* not a JSON object (get_json or .get raises), and key and value are what
\* .get returns, None for a missing field.
Body(json, key, value) == [json |-> json, key |-> key, value |-> value]

\* Every well-formed body, and each way of being malformed once.
WellFormed == {Body(TRUE, k, v) : k \in Keys, v \in Values}

WriteBodies ==
    WellFormed
        \cup {Body(TRUE, k, "1") : k \in WriteKeys \ Keys}
        \cup {Body(TRUE, "x", None), Body(FALSE, None, None)}

ReplicateBodies ==
    WellFormed
        \cup {Body(TRUE, None, "1"), Body(TRUE, "x", None),
              Body(FALSE, None, None)}

\* handle_write's validation: the body parsed and `not key or value is None`
\* is false.
AcceptsWrite(body) == body.json /\ ValidWrite(body.key, body.value)

\* handle_replication's try block raises when the body is not an object or
\* the key is unhashable; any other object is stored under whatever .get
\* returned.
AcceptsReplication(body) == body.json /\ Hashable(body.key)

\* ReplicationLeaves with dict.setdefault: a key the store holds keeps its
\* value.
ReplicationLeavesKeeping(store, body) ==
    IF AcceptsReplication(body)
    THEN PutIfAbsent(store, body.key, body.value) ELSE store

\* handle_replication as a function of the store and the posted body: the
\* store it leaves and the status it answers with.
ReplicationLeaves(store, body) ==
    IF AcceptsReplication(body) THEN Put(store, body.key, body.value) ELSE store

\* ReplicationStatus with a duplicate check: a payload the store already
\* holds is answered 409.
ReplicationStatusDedup(store, body) ==
    IF ~AcceptsReplication(body) THEN 400
    ELSE IF store[body.key] = body.value THEN 409 ELSE 200

ReplicationStatus(store, body) == IF AcceptsReplication(body) THEN 200 ELSE 400

\* ---------------------------------------------------------------- requests

NoSends == [p \in Nodes |-> "none"]
NoPosts == [p \in Nodes |-> 0]

\* A request that has reached its handler on node n.  wrote (the handler
\* has stored), posts (the requests.post calls made for it, per peer) and
\* status (the status of the response each post returned, 0 for none)
\* record what happened; no handler reads them.
Request(kind, n, body, mode, pc, resp) ==
    [kind |-> kind, node |-> n, json |-> body.json, key |-> body.key,
     value |-> body.value, mode |-> mode, pc |-> pc, resp |-> resp,
     result |-> Absent, snap |-> EmptyStore, wrote |-> FALSE,
     req |-> NoSends, out |-> NoSends, posts |-> NoPosts,
     status |-> NoPosts]

\* requests.post(f"{url}/replicate", json=payload, ...) to peer p.
Post(op, p) ==
    [op EXCEPT !.req[p] = "inflight", !.out[p] = "pending",
               !.posts[p] = @ + 1]

RECURSIVE PostAll(_, _, _)
\* One sender thread per peer, each started before any is joined.
PostAll(op, urls, i) ==
    IF i > Len(urls) THEN op ELSE PostAll(Post(op, urls[i]), urls, i + 1)

\* The position of peer p in PEER_URLS of node n.
UrlIndex(n, p) == CHOOSE i \in 1..Len(PEER_URLS(n)) : PEER_URLS(n)[i] = p

\* PostNext with a loop that ends after its first pass.
PostNextNone(op, p) == op

\* replicate_write's loop: the request to the next peer is posted when the
\* one to peer p has returned or raised.
PostNext(op, p) ==
    LET urls == PEER_URLS(op.node)
        i == UrlIndex(op.node, p)
    IN  IF i < Len(urls) THEN Post(op, urls[i + 1]) ELSE op

\* len(results): the sender threads that appended True.
Acks(op) == Cardinality({p \in Peers(op.node) : op.out[p] = "ack"})

\* Joined with the bug of returning on the first sender that ends.
JoinedAny(op) == \E p \in Peers(op.node) : op.out[p] \notin {"none", "pending"}

\* Every sender thread has ended, so every join has returned.
Joined(op) == \A p \in Peers(op.node) : op.out[p] # "pending"

\* QuorumMet with the quorum counting this node: acks >= quorum - 1.
QuorumMetCountingSelf(acks) == acks >= quorum - 1

\* QuorumMet with the majority of the comment at line 101 (2 nodes) asked
\* of the peers.
QuorumMetMajority(acks) == acks >= quorum + 1

\* acks >= quorum
QuorumMet(acks) == acks >= quorum

\* ------------------------------------------------------------------- Init

Init ==
    /\ data = [n \in Nodes |-> EmptyStore]
    /\ data_lock = [n \in Nodes |-> FALSE]
    /\ ops = <<>>
    /\ hist = [n \in Nodes |-> <<>>]

\* --------------------------------------------------------- shared fragments

\* The values of the well-formed bodies received so far.
Used == {ops[o].value : o \in {i \in 1..Len(ops) :
                                   Body(TRUE, ops[i].key, ops[i].value)
                                       \in WellFormed /\ ops[i].kind # "read"}}

\* The handlers treat all values alike, so up to renaming values every
\* execution is one in which a well-formed body carries a value already
\* used or the first unused one of ValueOrder.
Canonical(body) ==
    body \in WellFormed =>
        \E i \in 1..Len(ValueOrder) :
            /\ body.value = ValueOrder[i]
            /\ i <= Cardinality(Used) + 1

Arrives(op) ==
    /\ Len(ops) < MaxOps
    /\ Canonical(Body(op.json, op.key, op.value))
    /\ ops' = Append(ops, op)

\* Acquire with a lock that does not exclude: the block is entered whether
\* or not another thread is inside it.
AcquireUnguarded(n) == data_lock' = [data_lock EXCEPT ![n] = TRUE]

\* `with data_lock:` entered on node n.
Acquire(n) == ~data_lock[n] /\ data_lock' = [data_lock EXCEPT ![n] = TRUE]

\* Store with the block left open: the lock is still held when the handler
\* goes on to start its replication.
StoreHolding(n, key, value) ==
    /\ data' = [data EXCEPT ![n] = Put(@, key, value)]
    /\ hist' = [hist EXCEPT ![n] = Append(@, <<key, value>>)]
    /\ UNCHANGED data_lock

\* `data[key] = value` inside `with data_lock:` on node n, and the block left.
Store(n, key, value) ==
    /\ data' = [data EXCEPT ![n] = Put(@, key, value)]
    /\ hist' = [hist EXCEPT ![n] = Append(@, <<key, value>>)]
    /\ data_lock' = [data_lock EXCEPT ![n] = FALSE]

\* `data[key] = value` raises TypeError inside `with data_lock:` on node n:
\* nothing is stored and the block is left.
StoreRaises(n) ==
    /\ data_lock' = [data_lock EXCEPT ![n] = FALSE]
    /\ UNCHANGED <<data, hist>>

\* The same for handle_replication and the body posted to it.
StoreReplicated(n, body) ==
    /\ data' = [data EXCEPT ![n] = ReplicationLeaves(@, body)]
    /\ hist' = [hist EXCEPT ![n] =
                   IF AcceptsReplication(body)
                   THEN Append(@, <<body.key, body.value>>) ELSE @]
    /\ data_lock' = [data_lock EXCEPT ![n] = FALSE]

\* Request o has arrived.
Arrived(o) == o <= Len(ops)

IsWrite(op) == op.kind = "write" /\ AcceptsWrite(op)
IsStrong(op) == IsWrite(op) /\ op.mode = "strong"
IsEventual(op) == IsWrite(op) /\ op.mode # "strong"

\* The payload replicate_write and replicate_write_synchronous post.
Payload(op) == Body(TRUE, op.key, op.value)

\* ------------------------------------------------------------ handle_write

\* Lines 86-93: the body does not parse, or key is falsy, or value is None.
\* The handler returns before line 95 reads the consistency parameter.
HandleWriteInvalid(n, body, mode) ==
    /\ ~AcceptsWrite(body)
    /\ Arrives(Request("write", n, body, "", "done", 400))
    /\ UNCHANGED <<data, data_lock, hist>>

\* Lines 97-105 and 62-67: the strong branch starts one sender thread per
\* peer and joins them.
HandleWriteStrong(n, body) ==
    /\ AcceptsWrite(body)
    /\ Arrives(PostAll(Request("write", n, body, "strong", "join", 0),
                       PEER_URLS(n), 1))
    /\ UNCHANGED <<data, data_lock, hist>>

\* Lines 112-114: every sender has ended and acks < quorum.
StrongReject(o) ==
    /\ Arrived(o)
    /\ IsStrong(ops[o]) /\ ops[o].pc = "join"
    /\ Joined(ops[o])
    /\ ~QuorumMet(Acks(ops[o]))
    /\ ops' = [ops EXCEPT ![o].pc = "done", ![o].resp = 503]
    /\ UNCHANGED <<data, data_lock, hist>>

\* Lines 107-108: every sender has ended, acks >= quorum, the lock is taken.
StrongAcquire(o) ==
    /\ Arrived(o)
    /\ IsStrong(ops[o]) /\ ops[o].pc = "join"
    /\ Joined(ops[o])
    /\ QuorumMet(Acks(ops[o]))
    /\ Acquire(ops[o].node)
    /\ ops' = [ops EXCEPT ![o].pc = "cs"]
    /\ UNCHANGED <<data, hist>>

\* Lines 109-111: the write is stored and 200 returned; a TypeError of
\* line 109 leaves the handler and Flask answers 500.
StrongCommit(o) ==
    /\ Arrived(o)
    /\ IsStrong(ops[o]) /\ ops[o].pc = "cs"
    /\ IF Hashable(ops[o].key)
       THEN /\ Store(ops[o].node, ops[o].key, ops[o].value)
            /\ ops' = [ops EXCEPT ![o].pc = "done", ![o].resp = 200,
                                  ![o].wrote = TRUE]
       ELSE /\ StoreRaises(ops[o].node)
            /\ ops' = [ops EXCEPT ![o].pc = "done", ![o].resp = 500]

\* Lines 116-119: any consistency other than "strong" takes the lock at once.
HandleWriteEventual(n, body, mode) ==
    /\ AcceptsWrite(body) /\ mode # "strong"
    /\ Acquire(n)
    /\ Arrives(Request("write", n, body, mode, "cs", 0))
    /\ UNCHANGED <<data, hist>>

\* The eventual write as it leaves the handler: stored, answered 200, the
\* background thread running replicate_write started on its first peer.
EventualLeaves(op) ==
    LET done == [op EXCEPT !.pc = "done", !.resp = 200, !.wrote = TRUE]
        urls == PEER_URLS(op.node)
    IN  IF Len(urls) > 0 THEN Post(done, urls[1]) ELSE done

\* Lines 120-126; a TypeError of line 120 leaves the handler before the
\* thread is started and Flask answers 500.
EventualCommit(o) ==
    /\ Arrived(o)
    /\ IsEventual(ops[o]) /\ ops[o].pc = "cs"
    /\ IF Hashable(ops[o].key)
       THEN /\ Store(ops[o].node, ops[o].key, ops[o].value)
            /\ ops' = [ops EXCEPT ![o] = EventualLeaves(ops[o])]
       ELSE /\ StoreRaises(ops[o].node)
            /\ ops' = [ops EXCEPT ![o].pc = "done", ![o].resp = 500]

\* -------------------------------------------------- the replication client

\* AfterSend with a retry: a failed post is made once more.
AfterSendRetry(op, p) ==
    IF op.out[p] = "failed" /\ op.posts[p] < 2 THEN Post(op, p)
    ELSE IF IsStrong(op) THEN op ELSE PostNext(op, p)

\* AfterSend with the failure surfaced: a failed post turns the answer of
\* the write into 503.
AfterSendSurfacing(op, p) ==
    LET next == IF IsStrong(op) THEN op ELSE PostNext(op, p)
    IN  IF op.out[p] = "failed" /\ op.pc = "done"
        THEN [next EXCEPT !.resp = 503] ELSE next

\* What the sender does once its post has returned or raised: the strong
\* sender thread ends; replicate_write's loop goes on to the next peer.
AfterSend(op, p) == IF IsStrong(op) THEN op ELSE PostNext(op, p)

\* Outcome with the status check left out: every response counts.
OutcomeAnyResponse(status) == "ack"

\* What the sender records for a response with this status (lines 53-58).
Outcome(status) == IF status = 200 THEN "ack" ELSE "rejected"

\* SendRaises for a post without timeout=: it raises only while the peer
\* cannot be connected to, never once the peer has taken the request.
SendRaisesNoTimeout(o, p) == FALSE /\ UNCHANGED vars

\* requests.post raises: no connection, or the timeout passes before the
\* response.  The request itself is not recalled: one still in flight may
\* reach the peer's handler later or never.
SendRaises(o, p) ==
    /\ Arrived(o)
    /\ ops[o].out[p] = "pending"
    /\ ops' = [ops EXCEPT ![o] =
                  AfterSend([ops[o] EXCEPT !.out[p] = "failed"], p)]
    /\ UNCHANGED <<data, data_lock, hist>>

\* ------------------------------------- handle_replication, posted by a peer

\* Lines 143-155 on peer p for the request write o posted to it: the whole
\* handler, which enters `with data_lock:` when the lock is free, stores or
\* raises, and leaves the block.
Replicates(o, p) ==
    /\ Arrived(o)
    /\ ops[o].req[p] = "inflight"
    /\ ~data_lock[p]
    /\ StoreReplicated(p, Payload(ops[o]))

\* SendReturns with a peer that answers before it stores: the 200 reaches
\* the sender while the request is still to be applied.
SendReturnsEarly(o, p) ==
    /\ Arrived(o)
    /\ ops[o].out[p] = "pending"
    /\ ops' = [ops EXCEPT ![o] =
                  AfterSend([ops[o] EXCEPT !.status[p] = 200,
                                           !.out[p] = Outcome(200)], p)]
    /\ UNCHANGED <<data, data_lock, hist>>

\* The peer handles the request and its response reaches the sender within
\* the timeout (lines 52-54, or line 35).
SendReturns(o, p) ==
    /\ Arrived(o)
    /\ ops[o].out[p] = "pending"
    /\ Replicates(o, p)
    /\ LET status == ReplicationStatus(data[p], Payload(ops[o]))
       IN  ops' = [ops EXCEPT ![o] =
                      AfterSend([ops[o] EXCEPT !.req[p] = "done",
                                               !.status[p] = status,
                                               !.out[p] = Outcome(status)], p)]

\* The peer handles a request whose sender has already given up.
ReplicationLate(o, p) ==
    /\ Arrived(o)
    /\ ops[o].out[p] = "failed"
    /\ Replicates(o, p)
    /\ ops' = [ops EXCEPT ![o].req[p] = "done"]

\* ------------------------------- handle_replication, posted by anyone else

\* Lines 143-147 and 153-155: the body is not an object.
HandleReplicationInvalid(n, body) ==
    /\ ~AcceptsReplication(body)
    /\ Arrives(Request("replicate", n, body, "", "done",
                       ReplicationStatus(data[n], body)))
    /\ UNCHANGED <<data, data_lock, hist>>

\* Lines 143-148.
HandleReplication(n, body) ==
    /\ AcceptsReplication(body)
    /\ Acquire(n)
    /\ Arrives(Request("replicate", n, body, "", "cs", 0))
    /\ UNCHANGED <<data, hist>>

\* Lines 149-152.
HandleReplicationCommit(o) ==
    /\ Arrived(o)
    /\ ops[o].kind = "replicate" /\ ops[o].pc = "cs"
    /\ StoreReplicated(ops[o].node, Payload(ops[o]))
    /\ ops' = [ops EXCEPT ![o].pc = "done", ![o].wrote = TRUE,
                          ![o].resp = ReplicationStatus(data[ops[o].node],
                                                        Payload(ops[o]))]

\* -------------------------------------------------------------- handle_read

\* Lines 132-133.
HandleRead(n, key) ==
    /\ Acquire(n)
    /\ Arrives(Request("read", n, Body(TRUE, key, None), "", "cs", 0))
    /\ UNCHANGED <<data, hist>>

\* Lines 134-137.
ReadReturn(o) ==
    /\ Arrived(o)
    /\ ops[o].kind = "read" /\ ops[o].pc = "cs"
    /\ ops' = [ops EXCEPT ![o].pc = "done",
                          ![o].resp = ReadStatus(data[ops[o].node], ops[o].key),
                          ![o].result = ReadValue(data[ops[o].node], ops[o].key)]
    /\ data_lock' = [data_lock EXCEPT ![ops[o].node] = FALSE]
    /\ UNCHANGED <<data, hist>>

\* --------------------------------------------------------------- get_status
\* Lines 159-164: the handler reads the dict without taking data_lock, so it
\* runs whether or not another thread holds it.
GetStatus(n) ==
    /\ Arrives([Request("status", n, Body(TRUE, None, None), "", "done", 200)
                   EXCEPT !.snap = data[n]])
    /\ UNCHANGED <<data, data_lock, hist>>

\* ------------------------------------------------------------------- Next

\* A step of a thread of the node that has accepted request o.
Handler(o) ==
    \/ StrongReject(o)
    \/ StrongAcquire(o)
    \/ StrongCommit(o)
    \/ EventualCommit(o)
    \/ HandleReplicationCommit(o)
    \/ ReadReturn(o)

\* A post made for write o ends.
Sender(o) ==
    \E p \in Nodes :
        \/ SendReturns(o, p)
        \/ SendRaises(o, p)

\* A peer handles the request write o posted to it after the post has raised.
Peer(o) ==
    \E p \in Nodes : ReplicationLate(o, p)

\* A request reaches node n.
Client(n) ==
    \/ \E body \in WriteBodies, mode \in Consistencies :
            HandleWriteInvalid(n, body, mode)
    \/ \E body \in WriteBodies : HandleWriteStrong(n, body)
    \/ \E body \in WriteBodies, mode \in Consistencies :
            HandleWriteEventual(n, body, mode)
    \/ \E body \in ReplicateBodies : HandleReplicationInvalid(n, body)
    \/ \E body \in ReplicateBodies : HandleReplication(n, body)
    \/ \E key \in Keys : HandleRead(n, key)
    \/ GetStatus(n)

\* The node and its peers as the node sees them: a peer handles a request
\* and answers within the timeout, or the post raises.  Whether a peer still
\* handles a request whose post has raised is invisible to the node, and is
\* left to LiveNext below.
Next ==
    \/ Client(NODE_ID)
    \/ \E o \in 1..MaxOps : Handler(o) \/ Sender(o)

Spec == Init /\ [][Next]_vars

\* ------------------------------------------------- the strong write alone

\* The environment of the termination check: strong writes of one value,
\* and reads, which contend with them for the lock.
LiveBodies == {Body(TRUE, k, ValueOrder[1]) : k \in Keys}

LiveClient(n) ==
    \/ \E body \in LiveBodies : HandleWriteStrong(n, body)
    \/ \E key \in Keys : HandleRead(n, key)

LiveHandler(o) ==
    \/ StrongReject(o)
    \/ StrongAcquire(o)
    \/ StrongCommit(o)
    \/ ReadReturn(o)

LiveNext ==
    \/ LiveClient(NODE_ID)
    \/ \E o \in 1..MaxOps : LiveHandler(o) \/ Sender(o) \/ Peer(o)

\* The threads of a node are scheduled fairly: a handler that can take its
\* next step takes it, and a post that has not returned raises at the
\* latest when timeout= passes.  Nothing obliges a peer to handle a request
\* or to answer it, nor a client to send one.
Runs ==
    \E o \in 1..MaxOps : LiveHandler(o) \/ \E p \in Nodes : SendRaises(o, p)

FairSpec == Init /\ [][LiveNext]_vars /\ WF_vars(Runs)

\* ------------------------------------------------ strong writes, any node

\* The nodes that have served a client so far.
Coordinators == {ops[o].node : o \in 1..Len(ops)}

\* Every node runs the same code with the same peers but for its own name,
\* so up to renaming nodes every execution is one in which a client request
\* goes to a node already used or to the first unused one of PEER_NODES.
CanonicalNode(n) ==
    \E i \in 1..Len(PEER_NODES) :
        PEER_NODES[i] = n /\ i <= Cardinality(Coordinators) + 1

\* Clients send well-formed strong writes to any node of the cluster.
ClusterClient(n) ==
    /\ CanonicalNode(n)
    /\ \E body \in WellFormed : HandleWriteStrong(n, body)

ClusterHandler(o) ==
    \/ StrongReject(o)
    \/ StrongAcquire(o)
    \/ StrongCommit(o)

ClusterNext ==
    \/ \E n \in Nodes : ClusterClient(n)
    \/ \E o \in 1..MaxOps : ClusterHandler(o) \/ Sender(o)

ClusterSpec == Init /\ [][ClusterNext]_vars

\* ------------------------------------ eventual writes, every peer answering

\* Clients send well-formed eventual writes and reads to any node.
ConvergeClient(n) ==
    \/ \E body \in WellFormed : HandleWriteEventual(n, body, "eventual")
    \/ \E key \in Keys : HandleRead(n, key)

ConvergeHandler(o) ==
    \/ EventualCommit(o)
    \/ ReadReturn(o)

\* Every peer is reachable and answers within the timeout: no post raises.
Delivers(o) ==
    \E p \in Nodes : SendReturns(o, p)

ConvergeNext ==
    \/ \E n \in Nodes : ConvergeClient(n)
    \/ \E o \in 1..MaxOps : ConvergeHandler(o) \/ Delivers(o)

\* The threads of every node are scheduled fairly: a handler that can take
\* its next step takes it, on the node of the write and, for a request a
\* peer has received, on the peer.
ConvergeRuns ==
    \E o \in 1..MaxOps : ConvergeHandler(o) \/ Delivers(o)

ConvergeSpec == Init /\ [][ConvergeNext]_vars /\ WF_vars(ConvergeRuns)

\* ------------------------------------------------------------- properties

\* The value of the last mutation of key in the history h, Absent if none.
Latest(h, key) ==
    LET at == {i \in 1..Len(h) : h[i][1] = key}
    IN  IF at = {} THEN Absent
        ELSE h[CHOOSE i \in at : \A j \in at : j <= i][2]

\* Request o is answered in this step.
Answered(o) == ops'[o].pc = "done" /\ (o > Len(ops) \/ ops[o].pc # "done")

\* Request o's handler takes this step: the request arrives, or its handler
\* moves on.
HandlerStep(o) == o > Len(ops) \/ ops[o].pc # ops'[o].pc

\* A sender of write o ends in this step.
SenderStep(o) ==
    /\ o <= Len(ops)
    /\ \E p \in Nodes : ops[o].out[p] = "pending" /\ ops'[o].out[p] # "pending"

\* The requests.post calls made so far.
RECURSIVE SumPosts(_, _)
SumPosts(op, S) ==
    IF S = {} THEN 0
    ELSE LET p == CHOOSE q \in S : TRUE
         IN  op.posts[p] + SumPosts(op, S \ {p})

RECURSIVE TotalPosts(_, _)
TotalPosts(log, i) ==
    IF i > Len(log) THEN 0 ELSE SumPosts(log[i], Nodes) + TotalPosts(log, i + 1)

\* A client write the handler must accept: a non-empty string key and a
\* value that is not null.
ValidClientWrite(op) ==
    op.kind = "write" /\ op.json /\ op.key \in Keys /\ op.value \in Values

\* A client write handle_write's validation must let through: a key that is
\* neither missing nor empty and a value that is not null.
AcceptedClientWrite(op) ==
    op.kind = "write" /\ op.json /\ op.key \notin {None, ""} /\ op.value # None

\* C1: a valid strong write that ends with fewer than quorum (1) peers
\* acknowledging is answered 503, which is not the 400 of invalid input, and
\* its handler has not stored; no step of a strong write's handler other
\* than the one answering 200 changes the store of its node, so the store
\* is as the rejected write found it unless another request changed it.
C1_StrongRejectLeavesStore ==
    [][\A o \in 1..Len(ops') :
         LET op == ops'[o]
         IN  (ValidClientWrite(op) /\ op.mode = "strong") =>
               /\ (op.pc = "done" /\ Acks(op) < 1) =>
                     op.resp = 503 /\ op.resp # 400 /\ ~op.wrote
               /\ (HandlerStep(o) /\ op.resp # 200) =>
                     data'[op.node] = data[op.node]]_vars

\* A strong write was rejected while the key held an earlier value, which it
\* still holds.
C1_Witness ==
    \E o \in 1..Len(ops) :
        /\ ValidClientWrite(ops[o]) /\ ops[o].mode = "strong"
        /\ ops[o].resp = 503
        /\ Has(data[ops[o].node], ops[o].key)
        /\ data[ops[o].node][ops[o].key] # ops[o].value

\* C2: a valid strong write that ends with at least quorum (1) peers
\* acknowledging is answered 200, and in the state in which it is answered
\* the local store maps its key to its value, so a read there returns it.
C2_StrongCommitStores ==
    [][\A o \in 1..Len(ops') :
         LET op == ops'[o]
         IN  (ValidClientWrite(op) /\ op.mode = "strong" /\ op.pc = "done"
                /\ Acks(op) >= 1) =>
               /\ op.resp = 200 /\ op.wrote
               /\ Answered(o) =>
                     /\ ReadStatus(data'[op.node], op.key) = 200
                     /\ ReadValue(data'[op.node], op.key) = op.value]_vars

\* A strong write committed on one acknowledgement while the other peer
\* failed.
C2_Witness ==
    \E o \in 1..Len(ops) :
        /\ ValidClientWrite(ops[o]) /\ ops[o].mode = "strong"
        /\ ops[o].resp = 200 /\ Acks(ops[o]) = 1
        /\ data[ops[o].node][ops[o].key] = ops[o].value

\* C3: a valid eventual write is answered 200 whatever the peers do, the
\* local store maps its key to its value in the state in which it is
\* answered, and a later outcome of one of its replication requests changes
\* neither the answer nor the local store.
C3_EventualCommits ==
    [][\A o \in 1..Len(ops') :
         LET op == ops'[o]
         IN  (ValidClientWrite(op) /\ op.mode # "strong" /\ op.pc = "done") =>
               /\ op.resp = 200 /\ op.wrote
               /\ Answered(o) =>
                     /\ ReadStatus(data'[op.node], op.key) = 200
                     /\ ReadValue(data'[op.node], op.key) = op.value
               /\ SenderStep(o) => data'[op.node] = data[op.node]]_vars

\* An eventual write stays committed and stored after every replication
\* request made for it has failed.
C3_Witness ==
    \E o \in 1..Len(ops) :
        /\ ValidClientWrite(ops[o]) /\ ops[o].mode # "strong"
        /\ ops[o].resp = 200
        /\ \A p \in Peers(ops[o].node) : ops[o].out[p] = "failed"
        /\ data[ops[o].node][ops[o].key] = ops[o].value

\* C4: a client write whose key is missing or empty or whose value is null
\* is answered 400 in either consistency mode, the step that handles it
\* leaves every store as it was, and no replication request is ever posted
\* for it.
C4_InvalidWriteRejected ==
    [][\A o \in 1..Len(ops') :
         LET op == ops'[o]
         IN  (op.kind = "write"
                /\ (op.key = None \/ op.key = "" \/ op.value = None)) =>
               /\ op.resp = 400 /\ op.pc = "done" /\ ~op.wrote
               /\ SumPosts(op, Nodes) = 0
               /\ \A p \in Nodes : op.req[p] = "none"
               /\ HandlerStep(o) => data' = data]_vars

\* A write with an empty key was rejected on a node whose store holds a
\* value.
C4_Witness ==
    \E o \in 1..Len(ops) :
        /\ ops[o].kind = "write" /\ ops[o].key = "" /\ ops[o].resp = 400
        /\ \E k \in StoreKeys : Has(data[ops[o].node], k)

\* C5: a replicated payload whose key or value is missing is answered 400
\* and never stored (the claim as stated).
C5_MalformedReplicationRejected ==
    \A o \in 1..Len(ops) :
        (ops[o].kind = "replicate"
           /\ (ops[o].key = None \/ ops[o].value = None)) =>
            /\ ops[o].pc = "done" /\ ops[o].resp = 400 /\ ~ops[o].wrote
            /\ ~Has(data[ops[o].node], None)

\* C6: a request that is not an accepted client write posts nothing, an
\* accepted client write posts at most once to each of its peers and to no one else,
\* so the posts made never exceed (accepted client writes) x (peers); and a step
\* in which a node handles a replicated write posts nothing.
C6_OneHopOneAttempt ==
    [][/\ \A o \in 1..Len(ops') :
            LET op == ops'[o]
            IN  /\ \A p \in Nodes : op.posts[p] <= 1
                /\ \A p \in Nodes \ Peers(op.node) : op.posts[p] = 0
                /\ ~AcceptedClientWrite(op) => SumPosts(op, Nodes) = 0
       /\ TotalPosts(ops', 1) <=
              Cardinality({o \in 1..Len(ops') : AcceptedClientWrite(ops'[o])})
                  * (Len(PEER_NODES) - 1)
       /\ (\E o \in 1..Len(ops), p \in Nodes :
              /\ ops[o].mode = "strong"
              /\ ops[o].req[p] # "done" /\ ops'[o].req[p] = "done") =>
              TotalPosts(ops', 1) = TotalPosts(ops, 1)
       /\ (\E o \in 1..Len(ops) : ops[o].kind = "replicate"
                                    /\ ops'[o] # ops[o]) =>
              TotalPosts(ops', 1) = TotalPosts(ops, 1)]_vars

\* A write has posted to both peers, one post has raised and the other has
\* been handled by its peer, and a replication request from outside has
\* been handled by the node.
C6_Witness ==
    /\ \E o \in 1..Len(ops) :
          /\ \A p \in Peers(ops[o].node) : ops[o].posts[p] = 1
          /\ \E p \in Peers(ops[o].node) : ops[o].out[p] = "failed"
          /\ \E p \in Peers(ops[o].node) : ops[o].req[p] = "done"
    /\ \E o \in 1..Len(ops) : ops[o].kind = "replicate" /\ ops[o].wrote

\* C7: from every store a node reaches, and for every body, handling the
\* same replication request a second time leaves the store the first
\* handling left and is answered with the same status.
C7_ReplicationIdempotent ==
    \A n \in Nodes, body \in ReplicateBodies :
        LET once == ReplicationLeaves(data[n], body)
            twice == ReplicationLeaves(once, body)
        IN  /\ twice = once
            /\ ReplicationStatus(once, body) = ReplicationStatus(data[n], body)

\* A node has handled the same replication request twice in a row and
\* answered 200 both times.
C7_Witness ==
    /\ Len(ops) = 2
    /\ \A o \in 1..2 : ops[o].kind = "replicate" /\ ops[o].resp = 200
    /\ Payload(ops[1]) = Payload(ops[2]) /\ ops[1].node = ops[2].node
    /\ Len(hist[ops[1].node]) = 2
    /\ data[ops[1].node][ops[1].key] = ops[1].value

\* C8: a read answers with the value of the last mutation of its key in the
\* node's own history, whether a client write or a replication made it, and
\* with 404 exactly when the history has no mutation of that key; the store
\* of every node agrees with its history at every key.
C8_ReadReturnsLatest ==
    [][/\ \A o \in 1..Len(ops') :
            LET op == ops'[o]
            IN  (op.kind = "read" /\ Answered(o)) =>
                  /\ op.result = Latest(hist'[op.node], op.key)
                  /\ op.resp = 404 <=> Latest(hist'[op.node], op.key) = Absent
                  /\ op.resp \in {200, 404}
       /\ \A n \in Nodes, k \in StoreKeys :
            /\ ReadValue(data'[n], k) = Latest(hist'[n], k)
            /\ ReadStatus(data'[n], k) = 404 <=> Latest(hist'[n], k) = Absent]_vars

\* A read has returned the value a replication stored.
C8_Witness ==
    \E o \in 1..Len(ops), r \in 1..Len(ops) :
        /\ ops[o].kind = "replicate" /\ ops[o].wrote
        /\ ops[r].kind = "read" /\ ops[r].resp = 200
        /\ ops[r].node = ops[o].node /\ ops[r].key = ops[o].key
        /\ ops[r].result = ops[o].value

\* C9: a strong write is inside its commit, or has stored, only when every
\* send launched for it has ended and at least quorum (1) acknowledged;
\* while one of its sends is pending its handler waits and has not stored.
C9_StrongWaitsForFanOut ==
    \A o \in 1..Len(ops) :
        (ValidClientWrite(ops[o]) /\ ops[o].mode = "strong") =>
            /\ (ops[o].wrote \/ ops[o].pc = "cs" \/ ops[o].resp = 200) =>
                  /\ \A p \in Peers(ops[o].node) :
                        ops[o].out[p] \in {"ack", "rejected", "failed"}
                  /\ Acks(ops[o]) >= 1
            /\ (\E p \in Peers(ops[o].node) : ops[o].out[p] = "pending") =>
                  ops[o].pc = "join" /\ ~ops[o].wrote /\ ops[o].resp = 0

\* A strong write has one acknowledgement, still waits for its other send,
\* and the key holds the earlier value.
C9_Witness ==
    \E o \in 1..Len(ops) :
        /\ ValidClientWrite(ops[o]) /\ ops[o].mode = "strong"
        /\ Acks(ops[o]) = 1
        /\ \E p \in Peers(ops[o].node) : ops[o].out[p] = "pending"
        /\ Has(data[ops[o].node], ops[o].key)
        /\ data[ops[o].node][ops[o].key] # ops[o].value

\* C10: under fair scheduling every valid strong write is eventually
\* answered 200 or 503, whether or not its peers ever handle its requests.
C10_StrongWriteReturns ==
    \A i \in 1..MaxOps :
        (Len(ops) >= i /\ ValidClientWrite(ops[i]) /\ ops[i].mode = "strong")
            ~> (Len(ops) >= i /\ ops[i].pc = "done" /\ ops[i].resp \in {200, 503})

\* A strong write has been answered 503 although neither peer ever handled
\* its request.
C10_Witness ==
    \E o \in 1..Len(ops) :
        /\ ValidClientWrite(ops[o]) /\ ops[o].mode = "strong"
        /\ ops[o].resp = 503
        /\ \A p \in Peers(ops[o].node) : ops[o].req[p] = "inflight"

\* The thread handling request h is inside `with data_lock:`.
Holds(h) == ops[h].pc = "cs"

\* A post made for write o has neither returned nor raised.
Sending(o) == \E p \in Nodes : ops[o].out[p] = "pending"

\* C11: a request with a post to a peer in progress, from the strong fan-out
\* or from the background replication of an eventual write, does not hold
\* the lock of its node; if the lock is held then, it is held by another
\* request that is inside its critical section and has no post in progress,
\* so the lock is never kept for the length of a network call.
C11_NoLockAcrossSend ==
    \A o \in 1..Len(ops) :
        Sending(o) =>
            /\ ~Holds(o)
            /\ data_lock[ops[o].node] =>
                  \E h \in 1..Len(ops) :
                      /\ h # o /\ ops[h].node = ops[o].node
                      /\ Holds(h) /\ ~Sending(h)

\* While a post of an eventual write is in progress another request of the
\* node holds the lock.
C11_Witness ==
    \E o \in 1..Len(ops), h \in 1..Len(ops) :
        /\ ValidClientWrite(ops[o]) /\ ops[o].mode # "strong" /\ Sending(o)
        /\ h # o /\ ops[h].node = ops[o].node /\ Holds(h)
        /\ data_lock[ops[o].node]

\* The thread handling request h is inside a mutation of the store: it
\* holds the lock in handle_write or handle_replication.
Mutating(h) == Holds(h) /\ ops[h].kind \in {"write", "replicate"}

\* C12: a status request takes its snapshot under the lock, so in the step
\* in which it reads the store no other thread of its node is inside a
\* mutation of the store (the claim as stated).
C12_StatusSnapshotUnderLock ==
    [][\A s \in 1..Len(ops') :
         (ops'[s].kind = "status" /\ Answered(s)) =>
             /\ ~data_lock[ops'[s].node]
             /\ ~\E h \in 1..Len(ops) :
                    ops[h].node = ops'[s].node /\ Mutating(h)]_vars

\* The requests of node n whose threads are inside `with data_lock:`.
Holders(n) == {h \in 1..Len(ops) : ops[h].node = n /\ Holds(h)}

\* C13: at most one thread of a node is inside a critical section, and the
\* lock of the node is held exactly while one is; the store of the node
\* that serves the clients changes only in a step of the thread that holds
\* its lock, in handle_write or handle_replication, and a read takes its
\* answer in a step of the thread that holds the lock; a peer, whose
\* handler runs as one step, mutates only when its lock is free.
C13_OneLockForStoreAccess ==
    [][/\ \A n \in Nodes :
            /\ Cardinality(Holders(n)') <= 1
            /\ data_lock'[n] <=> Holders(n)' # {}
            /\ data'[n] # data[n] =>
                  IF n = NODE_ID
                  THEN /\ data_lock[n] /\ ~data_lock'[n]
                       /\ \E h \in Holders(n) :
                              /\ Mutating(h) /\ ops'[h].pc = "done"
                              /\ ops'[h].wrote
                  ELSE ~data_lock[n]
       /\ \A o \in 1..Len(ops') :
            (ops'[o].kind = "read" /\ Answered(o)) =>
                /\ o \in Holders(ops'[o].node)
                /\ data_lock[ops'[o].node] /\ ~data_lock'[ops'[o].node]]_vars

\* A strong write that has its quorum waits to enter its critical section
\* while the thread of a replicated write is inside its own.
C13_Witness ==
    \E o \in 1..Len(ops), h \in 1..Len(ops) :
        /\ ValidClientWrite(ops[o]) /\ ops[o].mode = "strong"
        /\ ops[o].pc = "join" /\ Joined(ops[o]) /\ Acks(ops[o]) >= 1
        /\ ops[h].kind = "replicate" /\ ops[h].node = ops[o].node
        /\ Holds(h) /\ data_lock[ops[o].node]

\* C14: in the eventual branch the post to one peer starts without waiting
\* for the outcome of the post to another, so while the post to one peer has
\* neither returned nor raised the post to every other peer has been made
\* (the claim as stated).
C14_EventualPostsConcurrently ==
    \A o \in 1..Len(ops) :
        (ValidClientWrite(ops[o]) /\ ops[o].mode # "strong"
           /\ ops[o].pc = "done") =>
            \A p \in Peers(ops[o].node), q \in Peers(ops[o].node) :
                ops[o].out[p] = "pending" => ops[o].posts[q] >= 1

\* The peers whose response to write op had the status 200.
Succeeded(op) == {p \in Peers(op.node) : op.status[p] = 200}

\* C15: the acknowledgements of a strong write are exactly the peers whose
\* response had status 200, each counted once: a post that raised (timeout,
\* no connection) or a response with another status adds nothing, and the
\* count the handler compares with the quorum, on which it enters its
\* commit or answers 503, is the number of those peers.
C15_AcksAreSuccessResponses ==
    \A o \in 1..Len(ops) :
        (AcceptedClientWrite(ops[o]) /\ ops[o].mode = "strong") =>
            /\ \A p \in Nodes :
                  /\ ops[o].out[p] = "ack" <=> ops[o].status[p] = 200
                  /\ ops[o].out[p] = "rejected" <=>
                        ops[o].status[p] \notin {0, 200}
                  /\ ops[o].out[p] \in {"failed", "pending", "none"} =>
                        ops[o].status[p] = 0
            /\ Acks(ops[o]) = Cardinality(Succeeded(ops[o]))
            /\ Acks(ops[o]) <= Len(PEER_URLS(ops[o].node))
            /\ ops[o].pc = "cs" => Cardinality(Succeeded(ops[o])) >= quorum
            /\ ops[o].pc = "done" =>
                  (ops[o].resp = 503 <=>
                       Cardinality(Succeeded(ops[o])) < quorum)

\* A strong write was answered 503 after one peer answered 400 and the post
\* to the other raised.
C15_Witness ==
    \E o \in 1..Len(ops) :
        /\ AcceptedClientWrite(ops[o]) /\ ops[o].mode = "strong"
        /\ ops[o].pc = "done" /\ ops[o].resp = 503
        /\ \E p \in Peers(ops[o].node) : ops[o].status[p] = 400
        /\ \E p \in Peers(ops[o].node) : ops[o].out[p] = "failed"

\* C16: every key of the store of every node is a non-empty string and
\* every stored value is not null (the claim as stated).
C16_StoredEntriesWellFormed ==
    \A n \in Nodes, k \in StoreKeys :
        Has(data[n], k) => k \in Keys /\ data[n][k] # None

\* Strong writes o1 and o2 are of the same key with different values, were
\* served by different nodes, and both were answered 200.
BothCommitted(o1, o2) ==
    /\ ValidClientWrite(ops[o1]) /\ ValidClientWrite(ops[o2])
    /\ ops[o1].mode = "strong" /\ ops[o2].mode = "strong"
    /\ ops[o1].key = ops[o2].key /\ ops[o1].value # ops[o2].value
    /\ ops[o1].node # ops[o2].node
    /\ ops[o1].resp = 200 /\ ops[o2].resp = 200

\* No handler is running and no post is in progress.
Quiescent ==
    \A o \in 1..Len(ops) : ops[o].pc = "done" /\ ~Sending(o)

\* C17: two strong writes of one key with different values served by
\* different nodes can both commit and leave nodes that disagree
\* (C17_Witness is such a state); nothing orders them but the lock of each
\* node: once both have committed every node that holds the key holds the
\* value it applied last in its own order, each coordinator has applied its
\* own write after its quorum, and when no other write touched the key each
\* node holds one of the two values.
C17_CommitOrderIsLocal ==
    \A o1 \in 1..Len(ops), o2 \in 1..Len(ops) :
        BothCommitted(o1, o2) =>
            LET k == ops[o1].key
            IN  /\ \A n \in Nodes : ReadValue(data[n], k) = Latest(hist[n], k)
                /\ Has(data[ops[o1].node], k) /\ Acks(ops[o1]) >= quorum
                /\ (\A j \in 1..Len(ops) : j \in {o1, o2}) =>
                      \A n \in Nodes :
                          Has(data[n], k) =>
                              data[n][k] \in {ops[o1].value, ops[o2].value}

\* Both writes have committed, nothing is running any more, and the two
\* coordinators hold different values for the key.
C17_Witness ==
    \E o1 \in 1..Len(ops), o2 \in 1..Len(ops) :
        /\ BothCommitted(o1, o2)
        /\ Quiescent
        /\ data[ops[o1].node][ops[o1].key] = ops[o1].value
        /\ data[ops[o2].node][ops[o1].key] = ops[o2].value

\* Node p has applied (key, value) at some point.
Applied(p, key, value) ==
    \E i \in 1..Len(hist[p]) : hist[p][i] = <<key, value>>

\* C18: the acknowledgement of a peer is produced in the step in which the
\* peer has stored the write, while the coordinator has not yet stored it;
\* and in the step in which a strong write is stored by its coordinator and
\* answered 200, at least quorum (1) distinct peers had acknowledged and
\* applied its (key, value) before the step.
C18_CommitAfterPeersApplied ==
    [][\A o \in 1..Len(ops') :
         LET op == ops'[o]
         IN  (ValidClientWrite(op) /\ op.mode = "strong") =>
               /\ \A p \in Peers(op.node) :
                     (op.out[p] = "ack" /\ o <= Len(ops)
                         /\ ops[o].out[p] # "ack") =>
                         /\ data'[p][op.key] = op.value
                         /\ \E i \in 1..Len(hist'[p]) :
                                hist'[p][i] = <<op.key, op.value>>
                         /\ ~op.wrote /\ op.pc = "join"
               /\ (op.resp = 200 /\ Answered(o)) =>
                     /\ o <= Len(ops) /\ ~ops[o].wrote /\ op.wrote
                     /\ Cardinality({p \in Peers(op.node) :
                            /\ ops[o].out[p] = "ack"
                            /\ Applied(p, op.key, op.value)}) >= quorum]_vars

\* A strong write has committed on the acknowledgement of one peer, and that
\* peer has since stored another value for the key.
C18_Witness ==
    \E o \in 1..Len(ops) :
        /\ ValidClientWrite(ops[o]) /\ ops[o].mode = "strong"
        /\ ops[o].resp = 200 /\ Acks(ops[o]) = 1
        /\ \E p \in Peers(ops[o].node) :
              /\ ops[o].out[p] = "ack"
              /\ Applied(p, ops[o].key, ops[o].value)
              /\ data[p][ops[o].key] # ops[o].value

\* A valid strong write that was answered 503.
Rejected(o) ==
    ValidClientWrite(ops[o]) /\ ops[o].mode = "strong" /\ ops[o].resp = 503

\* Peer p has stored the (key, value) of write o because of the request
\* that write posted to it.
AppliedFor(o, p) ==
    ops[o].req[p] = "done" /\ Applied(p, ops[o].key, ops[o].value)

\* C19: after a strong write was rejected no node has stored its value
\* because of it, neither its coordinator nor a peer, also when a response
\* was lost or late (the claim as stated).
C19_RejectLeavesNoTrace ==
    \A o \in 1..Len(ops) :
        Rejected(o) =>
            /\ ~ops[o].wrote
            /\ \A p \in Peers(ops[o].node) : ~AppliedFor(o, p)

\* C19 as amended: a rejected strong write is never stored by its
\* coordinator, and a peer has stored it only if the post to that peer
\* raised, so that no response of the peer was received; no peer that
\* answered has stored it.
C19_RejectLeavesNoLocalTrace ==
    \A o \in 1..Len(ops) :
        Rejected(o) =>
            /\ ~ops[o].wrote
            /\ Acks(ops[o]) < quorum
            /\ \A p \in Peers(ops[o].node) :
                  AppliedFor(o, p) =>
                      ops[o].out[p] = "failed" /\ ops[o].status[p] = 0

\* A strong write was rejected, its coordinator does not hold the key, and
\* a peer whose response never arrived holds the rejected value.
C19_Witness ==
    \E o \in 1..Len(ops) :
        /\ Rejected(o)
        /\ ~Has(data[ops[o].node], ops[o].key)
        /\ \E p \in Peers(ops[o].node) :
              /\ AppliedFor(o, p) /\ ops[o].out[p] = "failed"
              /\ data[p][ops[o].key] = ops[o].value

\* Another request than i writes the key of write i, on any node.
OtherWrite(i) ==
    \E j \in 1..Len(ops) :
        /\ j # i /\ ops[j].kind \in {"write", "replicate"}
        /\ ops[j].key = ops[i].key

\* Every node of the cluster maps the key of write i to its value.
Converged(i) ==
    \A n \in Nodes : data[n][ops[i].key] = ops[i].value

\* C20: when every peer answers within the timeout and the threads are
\* scheduled fairly, a valid eventual write is followed by a state in which
\* every node maps its key to its value, unless another write of that key
\* has occurred.
C20_EventualWriteConverges ==
    \A i \in 1..MaxOps :
        (Len(ops) >= i /\ ValidClientWrite(ops[i]) /\ ops[i].mode # "strong")
            ~> (Len(ops) >= i /\ (Converged(i) \/ OtherWrite(i)))

\* An eventual write that no other write followed has reached both peers,
\* one of which was serving a read of the key when the request came.
C20_Witness ==
    \E i \in 1..Len(ops) :
        /\ ValidClientWrite(ops[i]) /\ ops[i].mode # "strong"
        /\ ~OtherWrite(i) /\ Converged(i)
        /\ \A p \in Peers(ops[i].node) : ops[i].out[p] = "ack"
        /\ \E r \in 1..Len(ops) :
              /\ ops[r].kind = "read" /\ ops[r].node # ops[i].node
              /\ ops[r].resp = 404

====
